---- MODULE Spec2Model ----
(***************************************************************************)
(* Model of calculate_mortgage_savings (src/mortgage_web_tool.py), the     *)
(* month-by-month amortization loop behind the prepayment calculator.      *)
(*                                                                         *)
(* Numbers.  The code computes in binary floating point.  The model        *)
(* computes the same expressions exactly, over the integers: amounts are   *)
(* whole currency units and annual_rate is drawn from multiples of 1200,   *)
(* so that monthly_rate = annual_rate / 12 / 100 is a whole number and     *)
(* every product and difference of the loop is an integer.  Rounding       *)
(* error of the floating-point build is therefore outside the model.  The  *)
(* one irrational quantity, npf.nper's logarithm, is carried as its floor  *)
(* together with a flag saying whether it is a whole number (see Real).    *)
(***************************************************************************)
EXTENDS Integers, Sequences, FiniteSets

\* ---------------------------------------------------------------- bounds
MaxPrincipal == 40
MaxPayment == 4
MaxPrepayment == 2
\* The loop of an input that never pays off is cut after MaxMonths months,
\* or once the balance has grown past MaxBalance.
MaxMonths == 44
MaxBalance == 60
\* Iterations the whole-call action unrolls per recursion level.
Chunk == 4096
\* Principals around the 12,000-month ceiling, for the whole-call runs.
LongSpread == 1

\* The sanity ceiling on the month counter.
Ceiling == 12000

VARIABLES
    initial_principal, monthly_payment, annual_rate,
    prepayment_amount, prepayment_freq, verbose,
    current_principal, total_interest, month_count, prepayment_month,
    history, original_total_interest,
    page, pc, result

inputs == <<initial_principal, monthly_payment, annual_rate,
            prepayment_amount, prepayment_freq, verbose>>
locals == <<current_principal, total_interest, month_count,
            prepayment_month, history>>
vars == <<inputs, locals, original_total_interest, page, pc, result>>

\* ------------------------------------------------------------ arithmetic
RECURSIVE Pow(_, _)
Pow(b, e) == IF e = 0 THEN 1 ELSE b * Pow(b, e - 1)

Max(a, b) == IF a >= b THEN a ELSE b

\* A real number known by its floor and by whether it is that whole number;
\* "nan" stands for the float results nan and +-inf.
Real(f, x) == [kind |-> "num", floor |-> f, exact |-> x]
NaN == [kind |-> "nan", floor |-> 0, exact |-> FALSE]
\* x - n for a whole number n.
RealMinus(x, n) == IF x.kind = "nan" THEN NaN ELSE Real(x.floor - n, x.exact)
RealIsZero(x) == x.kind = "num" /\ x.floor = 0 /\ x.exact
RealNonNeg(x) == x.kind = "num" /\ x.floor >= 0

MonthlyRate(rate) == (rate \div 12) \div 100

\* ------------------------------------------------- baseline (line 24)
\* The payment exceeds the first month's interest: pay - P*r > 0, the
\* argument of nper's logarithm is positive and finite.
Amortizing(P, pay, rate) == pay > P * MonthlyRate(rate)

\* npf.nper(r, -pay, P) >= k / pay, for an amortizing input with r > 0, where
\* nper = log(pay / (pay - P*r)) / log(1 + r):
\*     (pay / (pay - P*r))^pay >= (1 + r)^k.
NperAtLeast(P, pay, r, k) ==
    Pow(pay, pay) >= Pow(1 + r, k) * Pow(pay - P * r, pay)

RECURSIVE FloorPayNper(_, _, _, _)
\* The largest k >= from with pay * nper >= k.
FloorPayNper(P, pay, r, from) ==
    IF NperAtLeast(P, pay, r, from + 1)
    THEN FloorPayNper(P, pay, r, from + 1)
    ELSE from

\* monthly_payment * npf.nper(monthly_rate, -monthly_payment, initial_principal)
PayTimesNper(P, pay, rate) ==
    LET r == MonthlyRate(rate) IN
    IF pay <= 0 \/ ~Amortizing(P, pay, rate) THEN NaN
    ELSE IF r = 0 THEN Real(P, TRUE)
    ELSE LET k == FloorPayNper(P, pay, r, 0) IN
         Real(k, Pow(pay, pay) = Pow(1 + r, k) * Pow(pay - P * r, pay))

OriginalTotalInterest(P, pay, rate) == RealMinus(PayTimesNper(P, pay, rate), P)

\* ------------------------------------------------- the loop (lines 26-57)
Params == [initial_principal |-> initial_principal,
           monthly_payment   |-> monthly_payment,
           annual_rate       |-> annual_rate,
           prepayment_amount |-> prepayment_amount,
           prepayment_freq   |-> prepayment_freq,
           verbose           |-> verbose]

Locals == [current_principal |-> current_principal,
           total_interest    |-> total_interest,
           month_count       |-> month_count,
           prepayment_month  |-> prepayment_month,
           history           |-> history,
           page              |-> page]

\* The locals as lines 17-21 set them.
InitialLocals(p) == [current_principal |-> p.initial_principal,
                     total_interest    |-> 0,
                     month_count       |-> 0,
                     prepayment_month  |-> 0,
                     history           |-> <<>>,
                     page              |-> <<>>]

\* A loop test that also admits a zero balance.
LoopConditionAdmitsZero(s) == s.current_principal >= 0

LoopCondition(s) == s.current_principal > 0

MonthlyInterest(p, s) == s.current_principal * MonthlyRate(p.annual_rate)

\* The yearly test taken on the month counter before it is advanced.
YearlyDueBeforeIncrement(m, last) == (m - 1 - last) % 12 = 0

\* The yearly branch's test, with the month counter already advanced.
YearlyDue(m, last) == (m - last) % 12 = 0

\* Whether this iteration subtracts the prepayment.
Prepays(p, s) ==
    CASE p.prepayment_freq = "monthly" -> TRUE
      [] p.prepayment_freq = "yearly"  ->
            YearlyDue(s.month_count + 1, s.prepayment_month)
      [] OTHER -> FALSE

\* A prepayment added to the balance instead of taken off it.
DeductAdds(balance, amount) == balance + amount

\* current_principal -= prepayment_amount
Deduct(balance, amount) == balance - amount

\* The balance left unclamped.
ClampMissing(x) == x

Clamp(x) == Max(x, 0)

\* A record stamped with the month counter before its increment.
MonthRecordZeroBased(m, remaining, interest) ==
    [month |-> m - 1, remaining_principal |-> remaining,
     monthly_interest |-> interest]

\* The history record of line 50.
MonthRecord(m, remaining, interest) ==
    [month |-> m, remaining_principal |-> remaining,
     monthly_interest |-> interest]

\* What line 57 writes to the page when verbose is set.
WrittenLines(p, m, remaining, interest) ==
    IF p.verbose THEN <<MonthRecord(m, remaining, interest)>> ELSE <<>>

\* One iteration of the while loop.
Body(p, s) ==
    LET m         == s.month_count + 1
        interest  == MonthlyInterest(p, s)
        principal == p.monthly_payment - interest
        afterPay  == s.current_principal - principal
        afterPre  == IF Prepays(p, s)
                     THEN Deduct(afterPay, p.prepayment_amount) ELSE afterPay
        remaining == Clamp(afterPre)
    IN  [current_principal |-> remaining,
         total_interest    |-> s.total_interest + interest,
         month_count       |-> m,
         prepayment_month  |-> IF p.prepayment_freq = "yearly" /\ Prepays(p, s)
                               THEN m ELSE s.prepayment_month,
         history           |-> Append(s.history,
                                      MonthRecord(m, remaining, interest)),
         page              |-> s.page \o WrittenLines(p, m, remaining, interest)]

\* The record lines 59-66 return.
ResultOf(s, original) ==
    [total_months   |-> s.month_count,
     total_interest |-> s.total_interest,
     interest_saved |-> RealMinus(original, s.total_interest),
     history        |-> s.history]

\* ------------------------------------------------------------- the inputs
\* What the form of main() lets through: every number_input has
\* min_value = 0.0, the select box offers the two frequencies.
Frequencies == {"monthly", "yearly"}
AnnualRates == {0, 1200, 2400}

InputsIn(principals, payments, prepayments) ==
    /\ initial_principal \in principals
    /\ monthly_payment \in payments
    /\ annual_rate \in AnnualRates
    /\ prepayment_amount \in prepayments
    /\ prepayment_freq \in Frequencies
    /\ verbose \in BOOLEAN

\* The state when the while test is first reached (lines 16-24 done).
Entered ==
    /\ current_principal = InitialLocals(Params).current_principal
    /\ total_interest = InitialLocals(Params).total_interest
    /\ month_count = InitialLocals(Params).month_count
    /\ prepayment_month = InitialLocals(Params).prepayment_month
    /\ history = InitialLocals(Params).history
    /\ original_total_interest =
           OriginalTotalInterest(initial_principal, monthly_payment, annual_rate)
    /\ page = InitialLocals(Params).page
    /\ pc = "loop"
    /\ result = <<>>

Init ==
    /\ InputsIn(0..MaxPrincipal, 0..MaxPayment, 0..MaxPrepayment)
    /\ Entered

SetLocals(s) ==
    /\ current_principal' = s.current_principal
    /\ total_interest' = s.total_interest
    /\ month_count' = s.month_count
    /\ prepayment_month' = s.prepayment_month
    /\ history' = s.history
    /\ page' = s.page

\* One pass through the loop body.
LoopBody ==
    /\ pc = "loop"
    /\ LoopCondition(Locals)
    /\ month_count < MaxMonths
    /\ current_principal <= MaxBalance
    /\ SetLocals(Body(Params, Locals))
    /\ UNCHANGED <<inputs, original_total_interest, pc, result>>

\* The loop test fails: lines 59-66.
Return ==
    /\ pc = "loop"
    /\ ~LoopCondition(Locals)
    /\ result' = <<ResultOf(Locals, original_total_interest)>>
    /\ pc' = "returned"
    /\ UNCHANGED <<inputs, locals, original_total_interest, page>>

Next == LoopBody \/ Return

Spec == Init /\ [][Next]_vars

\* ------------------------------------------- the call as one step
RECURSIVE IterN(_, _, _)
\* Up to n passes through the loop, stopping once its test fails.
IterN(p, s, n) ==
    IF n = 0 \/ ~LoopCondition(s) THEN s
    ELSE IF n = 1 THEN Body(p, s)
    ELSE IterN(p, IterN(p, s, n \div 2), n - (n \div 2))

RECURSIVE WhileLoop(_, _)
\* while current_principal > 0: body
WhileLoop(p, s) ==
    IF LoopCondition(s) THEN WhileLoop(p, IterN(p, s, Chunk)) ELSE s

\* Inputs whose payoff takes about Ceiling months.  Those that never pay
\* off are left out: the call does not come back for them.
InitRun ==
    /\ InputsIn((Ceiling - LongSpread)..(Ceiling + LongSpread),
                1..MaxPayment, 0..MaxPrepayment)
    /\ Amortizing(initial_principal, monthly_payment, annual_rate)
    /\ Entered

\* calculate_mortgage_savings from its first line to its return.
Calculate ==
    /\ pc = "loop"
    /\ LET s == WhileLoop(Params, Locals) IN
         /\ SetLocals(s)
         /\ result' = <<ResultOf(s, original_total_interest)>>
    /\ pc' = "returned"
    /\ UNCHANGED <<inputs, original_total_interest>>

NextRun == Calculate

SpecRun == InitRun /\ [][NextRun]_vars

\* Every enabled step is eventually taken: the interpreter runs the loop on.
FairSpec == Spec /\ WF_vars(Next)

\* ------------------------------------------------------------ the claims
\* The domain constraints of the inputs.
ValidInput ==
    /\ initial_principal >= 0
    /\ monthly_payment > 0
    /\ annual_rate >= 0
    /\ prepayment_amount >= 0

AmortizingInput == Amortizing(initial_principal, monthly_payment, annual_rate)

\* The zero-prepayment run of the same loan.
BaselineParams == [Params EXCEPT !.prepayment_amount = 0]
BaselineAfter(m) == IterN(BaselineParams, InitialLocals(BaselineParams), m)
BaselineFinal == WhileLoop(BaselineParams, InitialLocals(BaselineParams))

\* The balance before month i's payment.
BalanceBefore(i) ==
    IF i = 1 THEN initial_principal ELSE history[i - 1].remaining_principal

\* C1: an input with monthly_payment > 0 whose first month's interest is
\* >= the payment is rejected before the loop: no iteration is ever run
\* and no result record is returned.
C1_NonAmortizingRejected ==
    (monthly_payment > 0 /\ ~AmortizingInput)
        => (month_count = 0 /\ history = <<>> /\ pc # "returned")

\* C2: an input that violates its domain is rejected before the loop
\* starts: no month is simulated, no history record is produced and no
\* result record is returned.
C2_InvalidInputRejected ==
    ~ValidInput => (month_count = 0 /\ history = <<>> /\ pc # "returned")

\* C3: for a valid input whose payment exceeds the first month's interest
\* the month counter never exceeds the ceiling of 12,000.
C3_WithinCeiling ==
    (ValidInput /\ AmortizingInput) => month_count <= Ceiling

\* C3, the part about returning: a valid amortizing input is eventually
\* answered with a result.
C3_EventuallyReturns ==
    (ValidInput /\ AmortizingInput) ~> (pc = "returned")

\* C4: for a valid amortizing input the recorded remaining_principal never
\* rises from one month to the next (the first record is <= the initial
\* principal) and is never negative, under both prepayment policies.
C4_MonotoneNonNegative ==
    (ValidInput /\ AmortizingInput) =>
        \A i \in 1..Len(history) :
            /\ history[i].remaining_principal >= 0
            /\ history[i].remaining_principal <= BalanceBefore(i)

C4_Witness ==
    /\ ValidInput /\ AmortizingInput
    /\ pc = "returned"
    /\ prepayment_freq = "yearly" /\ prepayment_amount > 0
    /\ annual_rate = 0
    /\ Len(history) >= 13
    /\ history[12].remaining_principal < history[11].remaining_principal
    /\ history[Len(history)].remaining_principal = 0

\* C5: under the yearly policy the prepayment is taken off the balance in
\* exactly the months 12, 24, 36, ... and in no other month, and
\* prepayment_month is 0 or the latest multiple of 12 reached.
C5_YearlyCadence ==
    prepayment_freq = "yearly" =>
        /\ prepayment_month = 12 * (month_count \div 12)
        /\ \A i \in 1..Len(history) :
              history[i].remaining_principal =
                  Max(BalanceBefore(i) + history[i].monthly_interest
                        - monthly_payment
                        - (IF i % 12 = 0 THEN prepayment_amount ELSE 0), 0)

C5_Witness ==
    /\ ValidInput /\ AmortizingInput
    /\ prepayment_freq = "yearly" /\ prepayment_amount > 0
    /\ month_count >= 37
    /\ prepayment_month = 36
    /\ history[12].remaining_principal > 0
    /\ history[24].remaining_principal > 0
    /\ history[36].remaining_principal > 0

\* C6: with a strictly positive prepayment the balance is, month by month,
\* <= the balance of the zero-prepayment run of the same loan, and the
\* returned total_months is <= that run's total_months.
C6_NeverLonger ==
    (ValidInput /\ AmortizingInput /\ prepayment_amount > 0) =>
        /\ current_principal <= BaselineAfter(month_count).current_principal
        /\ pc = "returned" =>
              result[1].total_months <= BaselineFinal.month_count

C6_Witness ==
    /\ ValidInput /\ AmortizingInput /\ prepayment_amount > 0
    /\ pc = "returned"
    /\ annual_rate > 0
    /\ result[1].total_months >= 1
    /\ result[1].total_months < BaselineFinal.month_count

\* C7: with a strictly positive prepayment the returned interest_saved,
\* baseline_total_interest - total_interest, is >= 0.
C7_SavingsNonNegative ==
    (pc = "returned" /\ ValidInput /\ AmortizingInput /\ prepayment_amount > 0)
        => RealNonNeg(result[1].interest_saved)

\* C8: with initial_principal = 0 and otherwise valid inputs no loop
\* iteration runs and the call returns total_months = 0,
\* total_interest = 0, interest_saved = 0 and an empty history.
C8_ZeroPrincipal ==
    (initial_principal = 0 /\ ValidInput) =>
        /\ month_count = 0
        /\ history = <<>>
        /\ pc = "loop" => ~LoopCondition(Locals)
        /\ pc = "returned" =>
              /\ result[1].total_months = 0
              /\ result[1].total_interest = 0
              /\ RealIsZero(result[1].interest_saved)
              /\ result[1].history = <<>>

C8_Witness ==
    /\ initial_principal = 0 /\ ValidInput
    /\ annual_rate > 0 /\ prepayment_amount > 0
    /\ pc = "returned"

\* C9: nothing is written to any display during the run, whatever the
\* inputs, the verbosity flag included.
C9_NothingDisplayed == page = <<>>

\* C10: a result for initial_principal > 0 has a non-empty history whose
\* last record has remaining_principal = 0, whose earlier records have
\* remaining_principal > 0, whose i-th record has month i, and
\* total_months is the number of records.
C10_PayoffTerm ==
    (pc = "returned" /\ initial_principal > 0) =>
        LET h == result[1].history IN
        /\ Len(h) >= 1
        /\ h[Len(h)].remaining_principal = 0
        /\ \A i \in 1..(Len(h) - 1) : h[i].remaining_principal > 0
        /\ \A i \in 1..Len(h) : h[i].month = i
        /\ result[1].total_months = Len(h)

C10_Witness ==
    /\ pc = "returned" /\ initial_principal > 0
    /\ Len(result[1].history) >= 3
    /\ annual_rate > 0

====
